---- MODULE Spec2Model ----
(***************************************************************************)
(* counts_to_csv: a CSR counts matrix written as a dense delimited table.  *)
(*                                                                         *)
(* The module models src/src/lib.rs (src/src/main.rs repeats the same      *)
(* RowValIter and the same conversion body under the name data_to_csv):    *)
(*   - RowValIter (new / next / serialize), the lazy zero-filling          *)
(*     expansion of one sparse row;                                        *)
(*   - make_csv and arrays_to_csv, the conversion: type-tag dispatch,      *)
(*     matrix construction, orientation (transpose), header, row loop.     *)
(*                                                                         *)
(* Option<T> is modelled as a sequence of length <= 1: None is <<>> and    *)
(* Some(x) is <<x>>.  A std::slice::Iter is modelled as the sub-slice it   *)
(* has still to yield.                                                     *)
(***************************************************************************)
EXTENDS Integers, Sequences, FiniteSets, TLC

VARIABLES
    \* ---- RowValIter exercised on its own
    row,        \* the CsVec view given to RowValIter::new: [dim, indices, data]
    it,         \* the RowValIter: [data, indices, next, index, stop]
    ret,        \* what the last call of next() returned (an Option)
    got,        \* the items next() has yielded (Some results) since new()
    calls,      \* the number of next() calls since new()
    last_op,    \* the last operation applied to the iterator
    ser,        \* the value sequence the last serialize() handed to the serializer
    \* ---- the conversion (make_csv -> arrays_to_csv)
    pc,         \* position in make_csv / arrays_to_csv
    adata,      \* the AnnData object: [dtype, indptr, indices, data, obs_names, var_names]
    args,       \* LibOpts: [column_orient]
    counts_mtx, \* the CsMat: [storage, nrows, ncols, indptr, indices, data]
    header,     \* arrays_to_csv's local `header`
    first_col,  \* arrays_to_csv's local `first_col`
    row_names,  \* arrays_to_csv's local `row_names`
    row_i,      \* how many items the zipped row iterator has yielded
    output,     \* the records the csv writer has been given, in order
    result,     \* what make_csv returned: "running", "Ok" or "Err"
    err         \* the error returned: [kind, names], names the type names it lists

iter_vars == <<row, it, ret, got, calls, last_op, ser>>
conv_vars == <<pc, adata, args, counts_mtx, header, first_col, row_names, row_i, output,
              result, err>>
vars == <<row, it, ret, got, calls, last_op, ser,
          pc, adata, args, counts_mtx, header, first_col, row_names, row_i, output,
          result, err>>

(***************************************************************************)
(* Bounds of the model.                                                    *)
(***************************************************************************)
MaxLen == 3      \* longest row given to a RowValIter on its own
MaxCalls == 6    \* next() calls followed on one RowValIter
MaxRows == 2     \* most obs labels (rows of X)
MaxCols == 3     \* most var labels (columns of X)
MaxNnz == 3      \* most stored entries of X

\* the stored values the inputs are drawn from
Values == {5, 7, 9}

(***************************************************************************)
(* Option and slice iterators.                                             *)
(***************************************************************************)
None == <<>>
Some(x) == <<x>>

\* T::default() for the ten numeric element types
Zero == 0

\* std::slice::Iter::next followed by .cloned()
slice_next(s) ==
    IF s = <<>> THEN [iter |-> s, item |-> None]
    ELSE [iter |-> Tail(s), item |-> Some(Head(s))]

\* the strictly increasing sequence of the elements of a finite set of naturals
RECURSIVE SortedSeq(_)
SortedSeq(S) ==
    IF S = {} THEN <<>>
    ELSE LET m == CHOOSE x \in S : \A y \in S : x <= y
         IN <<m>> \o SortedSeq(S \ {m})

(***************************************************************************)
(* RowValIter                                                              *)
(***************************************************************************)
\* RowValIter::new(values)
RowValIter_new(values) ==
    LET idx == slice_next(values.indices)
    IN [data    |-> values.data,
        indices |-> idx.iter,
        next    |-> idx.item,
        index   |-> 0,
        stop    |-> values.dim]

\* next() with the trailing zero fill running one position too far
RowValIter_next_fill_past_stop(self) ==
    IF self.next # None
    THEN LET ind == self.next[1] IN
         IF self.index = ind
         THEN LET idx == slice_next(self.indices)
                  dat == slice_next(self.data)
              IN [self |-> [self EXCEPT !.next = idx.item, !.indices = idx.iter,
                                        !.index = @ + 1, !.data = dat.iter],
                  ret  |-> dat.item]
         ELSE [self |-> [self EXCEPT !.index = @ + 1], ret |-> Some(Zero)]
    ELSE IF self.index <= self.stop
         THEN [self |-> [self EXCEPT !.index = @ + 1], ret |-> Some(Zero)]
         ELSE [self |-> self, ret |-> None]

\* next() that reads the stored value without advancing the value slice
RowValIter_next_data_not_advanced(self) ==
    IF self.next # None
    THEN LET ind == self.next[1] IN
         IF self.index = ind
         THEN LET idx == slice_next(self.indices)
                  dat == slice_next(self.data)
              IN [self |-> [self EXCEPT !.next = idx.item, !.indices = idx.iter,
                                        !.index = @ + 1],
                  ret  |-> dat.item]
         ELSE [self |-> [self EXCEPT !.index = @ + 1], ret |-> Some(Zero)]
    ELSE IF self.index < self.stop
         THEN [self |-> [self EXCEPT !.index = @ + 1], ret |-> Some(Zero)]
         ELSE [self |-> self, ret |-> None]

\* <RowValIter as Iterator>::next: the iterator afterwards and the item returned
RowValIter_next(self) ==
    IF self.next # None
    THEN LET ind == self.next[1] IN
         IF self.index = ind
         THEN LET idx == slice_next(self.indices)
                  dat == slice_next(self.data)
              IN [self |-> [self EXCEPT !.next = idx.item, !.indices = idx.iter,
                                        !.index = @ + 1, !.data = dat.iter],
                  ret  |-> dat.item]
         ELSE [self |-> [self EXCEPT !.index = @ + 1], ret |-> Some(Zero)]
    ELSE IF self.index < self.stop
         THEN [self |-> [self EXCEPT !.index = @ + 1], ret |-> Some(Zero)]
         ELSE [self |-> self, ret |-> None]

\* Serializer::collect_seq(iter): next() until the first None
RECURSIVE collect_seq(_)
collect_seq(iter) ==
    LET r == RowValIter_next(iter)
    IN IF r.ret = None THEN <<>> ELSE r.ret \o collect_seq(r.self)

\* the iterator left behind when next() has been called until the first None
RECURSIVE drained(_)
drained(iter) ==
    LET r == RowValIter_next(iter)
    IN IF r.ret = None THEN r.self ELSE drained(r.self)

\* serialize() that iterates self instead of a clone
RowValIter_serialize_in_place(self) ==
    [self |-> drained(self), seq |-> collect_seq(self)]

\* <RowValIter as Serialize>::serialize(&self): the iterator afterwards and the
\* sequence handed to the serializer; the iteration runs on self.clone()
RowValIter_serialize(self) ==
    LET clone == self
    IN [self |-> self, seq |-> collect_seq(clone)]

(***************************************************************************)
(* Row views.                                                              *)
(***************************************************************************)
\* the view with declared length L, stored columns S and stored values vals
MkView(L, S, vals) ==
    LET idx == SortedSeq(S)
    IN [dim |-> L, indices |-> idx, data |-> [k \in 1..Len(idx) |-> vals[idx[k]]]]

\* a structurally valid sparse row: strictly increasing columns, each < dim,
\* as many values as columns
ValidRow(v) ==
    /\ Len(v.indices) = Len(v.data)
    /\ \A k \in 1..Len(v.indices) : v.indices[k] < v.dim
    /\ \A k \in 1..(Len(v.indices) - 1) : v.indices[k] < v.indices[k + 1]

\* the rows a checked CsMat / CsVec hands out
ValidRowViews ==
    UNION { UNION { { MkView(L, S, vals) : vals \in [S -> Values] }
                    : S \in SUBSET (0..(L - 1)) }
            : L \in 0..MaxLen }

\* views built without sprs's checks: the columns are increasing but not
\* bounded by the declared length
UncheckedRowViews ==
    UNION { UNION { { MkView(L, S, vals) : vals \in [S -> Values] }
                    : S \in SUBSET (0..MaxLen) }
            : L \in 0..MaxLen }

\* the dense value of column i of a row view
DenseAt(v, i) ==
    IF \E k \in 1..Len(v.indices) : v.indices[k] = i
    THEN v.data[CHOOSE k \in 1..Len(v.indices) : v.indices[k] = i]
    ELSE Zero

\* the dense row a view stands for
Dense(v) == [i \in 1..v.dim |-> DenseAt(v, i - 1)]

(***************************************************************************)
(* The sparse matrix (sprs::CsMatBase), as arrays_to_csv uses it.          *)
(***************************************************************************)
NoMatrix == [storage |-> "none", nrows |-> 0, ncols |-> 0,
             indptr |-> <<>>, indices |-> <<>>, data |-> <<>>]

\* the checks of CsMatBase::try_new((nrows, ncols), indptr, indices, data):
\* the lengths agree with the shape, indptr is non-decreasing and ends at
\* the number of stored entries, and every row's columns are strictly
\* increasing and < ncols
structure_ok(nrows, ncols, indptr, indices, data) ==
    /\ Len(indptr) = nrows + 1
    /\ Len(indices) = Len(data)
    /\ \A i \in 1..(Len(indptr) - 1) : indptr[i] <= indptr[i + 1]
    /\ indptr[Len(indptr)] = Len(indices)
    /\ \A i \in 1..(Len(indptr) - 1) :
          \A k \in (indptr[i] + 1)..indptr[i + 1] :
              /\ indices[k] < ncols
              /\ (k < indptr[i + 1] => indices[k] < indices[k + 1])

\* CsMatBase::try_new: Ok(matrix) as <<matrix>>, Err as <<>>
try_new(nrows, ncols, indptr, indices, data) ==
    IF structure_ok(nrows, ncols, indptr, indices, data)
    THEN Some([storage |-> "CSR", nrows |-> nrows, ncols |-> ncols,
               indptr |-> indptr, indices |-> indices, data |-> data])
    ELSE None

\* CsMatBase::outer_dims / inner_dims
outer_dims(m) == IF m.storage = "CSR" THEN m.nrows ELSE m.ncols
inner_dims(m) == IF m.storage = "CSR" THEN m.ncols ELSE m.nrows

\* CsMatBase::transpose_mut: the shape is swapped and the storage order
\* flipped; the arrays stay as they are
transpose_mut(m) ==
    [m EXCEPT !.nrows = m.ncols, !.ncols = m.nrows,
              !.storage = IF m.storage = "CSR" THEN "CSC" ELSE "CSR"]

\* the outer index of the k-th stored entry (k from 1)
outer_of(m, k) ==
    CHOOSE o \in 0..(outer_dims(m) - 1) : m.indptr[o + 1] < k /\ k <= m.indptr[o + 2]

\* the positions (from 1) of the stored entries whose inner index is j,
\* in storage order
entries_of_inner(m, j) ==
    LET Hit(k) == m.indices[k] = j
    IN SelectSeq([k \in 1..Len(m.indices) |-> k], Hit)

\* the stored entries regrouped by inner index, inner indices ascending
RECURSIVE regrouped(_, _)
regrouped(m, j) ==
    IF j >= inner_dims(m) THEN <<>>
    ELSE entries_of_inner(m, j) \o regrouped(m, j + 1)

\* to_other_storage that regroups the indices but leaves data in its old order
to_other_storage_data_in_place(m) ==
    LET perm == regrouped(m, 0)
    IN [storage |-> IF m.storage = "CSR" THEN "CSC" ELSE "CSR",
        nrows   |-> m.nrows,
        ncols   |-> m.ncols,
        indptr  |-> [j \in 1..(inner_dims(m) + 1) |->
                        Cardinality({k \in 1..Len(m.indices) : m.indices[k] < j - 1})],
        indices |-> [n \in 1..Len(perm) |-> outer_of(m, perm[n])],
        data    |-> m.data]

\* CsMatBase::to_other_storage: the same matrix compressed along the other
\* axis; every stored entry is bucketed by its inner index, the buckets keep
\* the entries in ascending outer index
to_other_storage(m) ==
    LET perm == regrouped(m, 0)
    IN [storage |-> IF m.storage = "CSR" THEN "CSC" ELSE "CSR",
        nrows   |-> m.nrows,
        ncols   |-> m.ncols,
        indptr  |-> [j \in 1..(inner_dims(m) + 1) |->
                        Cardinality({k \in 1..Len(m.indices) : m.indices[k] < j - 1})],
        indices |-> [n \in 1..Len(perm) |-> outer_of(m, perm[n])],
        data    |-> [n \in 1..Len(perm) |-> m.data[perm[n]]]]

\* CsMatBase::to_csr
to_csr(m) == IF m.storage = "CSR" THEN m ELSE to_other_storage(m)

\* outer_view with the outer dimension as the view's length
outer_view_dim_outer(m, i) ==
    [dim     |-> outer_dims(m),
     indices |-> SubSeq(m.indices, m.indptr[i + 1] + 1, m.indptr[i + 2]),
     data    |-> SubSeq(m.data, m.indptr[i + 1] + 1, m.indptr[i + 2])]

\* the i-th item (i from 0) of CsMatBase::outer_iterator: the CsVec view of
\* outer slice i
outer_view(m, i) ==
    [dim     |-> inner_dims(m),
     indices |-> SubSeq(m.indices, m.indptr[i + 1] + 1, m.indptr[i + 2]),
     data    |-> SubSeq(m.data, m.indptr[i + 1] + 1, m.indptr[i + 2])]

(***************************************************************************)
(* The inputs of the conversion.                                           *)
(***************************************************************************)
\* make_csv's dispatch: the dtype names it accepts and the element type each
\* instantiates arrays_to_csv with
DtypeOf ==
    [t \in {"int8", "int16", "int32", "int64", "uint8", "uint16", "uint32",
            "uint64", "float32", "float64"} |->
        CASE t = "int8" -> "i8"     [] t = "int16" -> "i16"
          [] t = "int32" -> "i32"   [] t = "int64" -> "i64"
          [] t = "uint8" -> "u8"    [] t = "uint16" -> "u16"
          [] t = "uint32" -> "u32"  [] t = "uint64" -> "u64"
          [] t = "float32" -> "f32" [] t = "float64" -> "f64"]

SupportedDtypes == DOMAIN DtypeOf

\* the type names listed by make_csv's "Invalid data type" error
PossibleDataTypes ==
    <<"i8", "i16", "i32", "i64", "u8", "u16", "u32", "u64", "f32", "f64">>

\* the dtype names the model feeds in
InputDtypes == SupportedDtypes \cup {"complex64"}

ObsLabels == <<"r0", "r1", "r2", "r3">>
VarLabels == <<"c0", "c1", "c2", "c3", "c4">>

\* the value of the k-th stored entry (k from 1): 5, 7, 9, ...; the stored
\* values of one matrix are pairwise different
StoredValue(k) == 2 * k + 3

\* the CSR arrays of the nr x nc matrix whose stored entries sit at the
\* positions P (pairs <<row, column>>)
CsrOf(nr, nc, P) ==
    LET keys == SortedSeq({p[1] * nc + p[2] : p \in P})
    IN [indptr  |-> [i \in 1..(nr + 1) |-> Cardinality({p \in P : p[1] < i - 1})],
        indices |-> [k \in 1..Len(keys) |-> keys[k] % nc],
        data    |-> [k \in 1..Len(keys) |-> StoredValue(k)]]

\* the ways an input is spoilt before it is handed over
Defects == {"none", "indptr_len", "data_len", "index_range", "indptr_order",
            "indptr_last", "index_order"}

Reverse(s) == [k \in 1..Len(s) |-> s[Len(s) + 1 - k]]

Spoilt(a, nc, d) ==
    LET n == Len(a.indices)
        last == Len(a.indptr)
    IN CASE d = "none" -> a
         [] d = "indptr_len" -> [a EXCEPT !.indptr = SubSeq(@, 1, last - 1)]
         [] d = "data_len" -> [a EXCEPT !.data = Append(@, 5)]
         [] d = "index_range" ->
                IF n = 0 THEN a ELSE [a EXCEPT !.indices[n] = nc]
         [] d = "indptr_order" ->
                IF last < 3 THEN a ELSE [a EXCEPT !.indptr[last - 1] = n + 1]
         [] d = "indptr_last" -> [a EXCEPT !.indptr[last] = n + 1]
         [] d = "index_order" -> [a EXCEPT !.indices = Reverse(@)]

\* the position sets of the stored entries of an nr x nc matrix
Positions(nr, nc) ==
    { Q \in SUBSET ((0..(nr - 1)) \X (0..(nc - 1))) : Cardinality(Q) <= MaxNnz }

\* the AnnData object with nr obs labels, nc var labels, stored entries at P,
\* spoilt by d, of dtype t
InputOf(nr, nc, P, d, t) ==
    LET a == Spoilt(CsrOf(nr, nc, P), nc, d)
    IN [dtype |-> t, indptr |-> a.indptr, indices |-> a.indices, data |-> a.data,
        obs_names |-> SubSeq(ObsLabels, 1, nr),
        var_names |-> SubSeq(VarLabels, 1, nc)]

Orients == {"VarNames", "ObsNames"}

(***************************************************************************)
(* The conversion: make_csv and arrays_to_csv.                             *)
(*                                                                         *)
(* output holds the records handed to the csv writer, field by field; the  *)
(* delimiter byte chosen from args.delimiter only decides how the writer   *)
(* renders them and is left out.  Opening the file and every write may     *)
(* fail; the `?` then returns the error.                                   *)
(***************************************************************************)
NoError == [kind |-> "", names |-> <<>>]

IterIdle ==
    /\ row = [dim |-> 0, indices |-> <<>>, data |-> <<>>]
    /\ it = RowValIter_new(row)
    /\ ret = None
    /\ got = <<>>
    /\ calls = 0
    /\ last_op = "new"
    /\ ser = <<>>

Init ==
    /\ pc = "make_csv"
    /\ \E nr \in 0..MaxRows, nc \in 0..MaxCols :
          \E P \in Positions(nr, nc), d \in Defects, t \in InputDtypes :
              adata = InputOf(nr, nc, P, d, t)
    /\ args \in [column_orient : Orients]
    /\ counts_mtx = NoMatrix
    /\ header = <<>>
    /\ first_col = ""
    /\ row_names = <<>>
    /\ row_i = 0
    /\ output = <<>>
    /\ result = "running"
    /\ err = NoError
    /\ IterIdle

\* make_csv returns Err(e)
Fail(kind, names) ==
    /\ pc' = "returned"
    /\ result' = "Err"
    /\ err' = [kind |-> kind, names |-> names]

\* make_csv with the `_` arm of the match taken for f64
MakeCsv_default_arm_f64 ==
    /\ pc = "make_csv"
    /\ pc' = "try_new"
    /\ UNCHANGED <<result, err>>
    /\ UNCHANGED <<adata, args, counts_mtx, header, first_col, row_names, row_i, output>>
    /\ UNCHANGED iter_vars

\* make_csv: the arrays are extracted and the match on data.dtype.name
\* either calls arrays_to_csv::<T> or returns the "Invalid data type" error
MakeCsv ==
    /\ pc = "make_csv"
    /\ IF adata.dtype \in SupportedDtypes
       THEN pc' = "try_new" /\ UNCHANGED <<result, err>>
       ELSE Fail("Invalid data type", PossibleDataTypes)
    /\ UNCHANGED <<adata, args, counts_mtx, header, first_col, row_names, row_i, output>>
    /\ UNCHANGED iter_vars

\* the construction with the checks left out (new_from_unchecked)
Construct_unchecked ==
    /\ pc = "try_new"
    /\ counts_mtx' = [storage |-> "CSR", nrows |-> Len(adata.obs_names),
                      ncols |-> Len(adata.var_names), indptr |-> adata.indptr,
                      indices |-> adata.indices, data |-> adata.data]
    /\ pc' = "orient"
    /\ UNCHANGED <<result, err>>
    /\ UNCHANGED <<adata, args, header, first_col, row_names, row_i, output>>
    /\ UNCHANGED iter_vars

\* let mut counts_mtx = CsMatBase::try_new((obs_vec.len(), var_vec.len()),
\*                                         indptr, indices, data)?;
Construct ==
    /\ pc = "try_new"
    /\ LET r == try_new(Len(adata.obs_names), Len(adata.var_names),
                        adata.indptr, adata.indices, adata.data)
       IN IF r # None
          THEN counts_mtx' = r[1] /\ pc' = "orient" /\ UNCHANGED <<result, err>>
          ELSE UNCHANGED counts_mtx /\ Fail("structure", <<>>)
    /\ UNCHANGED <<adata, args, header, first_col, row_names, row_i, output>>
    /\ UNCHANGED iter_vars

\* the orientation match with the label vectors not swapped for ObsNames
Orient_labels_not_swapped ==
    /\ pc = "orient"
    /\ IF args.column_orient = "ObsNames"
       THEN /\ counts_mtx' = to_csr(transpose_mut(counts_mtx))
            /\ header' = adata.var_names
            /\ first_col' = "gene"
            /\ row_names' = adata.obs_names
       ELSE /\ UNCHANGED counts_mtx
            /\ header' = adata.var_names
            /\ first_col' = "cell"
            /\ row_names' = adata.obs_names
    /\ pc' = "open"
    /\ UNCHANGED <<adata, args, row_i, output, result, err>>
    /\ UNCHANGED iter_vars

\* let (header, first_col, row_names) = match args.column_orient { .. }
Orient ==
    /\ pc = "orient"
    /\ IF args.column_orient = "ObsNames"
       THEN /\ counts_mtx' = to_csr(transpose_mut(counts_mtx))
            /\ header' = adata.obs_names
            /\ first_col' = "gene"
            /\ row_names' = adata.var_names
       ELSE /\ UNCHANGED counts_mtx
            /\ header' = adata.var_names
            /\ first_col' = "cell"
            /\ row_names' = adata.obs_names
    /\ pc' = "open"
    /\ UNCHANGED <<adata, args, row_i, output, result, err>>
    /\ UNCHANGED iter_vars

\* csv::WriterBuilder::new()...from_path(args.outfile.clone())?
OpenWriter ==
    /\ pc = "open"
    /\ \/ pc' = "header" /\ UNCHANGED <<result, err>>
       \/ Fail("io", <<>>)
    /\ UNCHANGED <<adata, args, counts_mtx, header, first_col, row_names, row_i, output>>
    /\ UNCHANGED iter_vars

\* writer.write_field(first_col)?; writer.write_record(header)?;
WriteHeader ==
    /\ pc = "header"
    /\ \/ /\ output' = Append(output, [kind |-> "header", name |-> first_col,
                                        values |-> header])
          /\ pc' = "rows"
          /\ UNCHANGED <<result, err>>
       \/ UNCHANGED output /\ Fail("io", <<>>)
    /\ UNCHANGED <<adata, args, counts_mtx, header, first_col, row_names, row_i>>
    /\ UNCHANGED iter_vars

\* the row loop taking the matrix rows from the last to the first
WriteRow_rows_reversed ==
    /\ pc = "rows"
    /\ row_i < outer_dims(counts_mtx)
    /\ row_i < Len(row_names)
    /\ LET v == outer_view(counts_mtx, outer_dims(counts_mtx) - 1 - row_i)
           row_val_iter == RowValIter_new(v)
           s == RowValIter_serialize(row_val_iter)
       IN /\ row' = v
          /\ it' = s.self
          /\ ser' = s.seq
          /\ last_op' = "serialize"
          /\ ret' = None /\ got' = <<>> /\ calls' = 0
          /\ \/ /\ output' = Append(output, [kind |-> "row", name |-> row_names[row_i + 1],
                                              values |-> s.seq])
                /\ row_i' = row_i + 1
                /\ UNCHANGED <<pc, result, err>>
             \/ UNCHANGED <<output, row_i>> /\ Fail("io", <<>>)
    /\ UNCHANGED <<adata, args, counts_mtx, header, first_col, row_names>>

\* one pass of `for (row, row_name) in row_iter.zip(row_names.iter())`:
\* RowValIter::new(&row), then writer.serialize(Row { name, values })?
WriteRow ==
    /\ pc = "rows"
    /\ row_i < outer_dims(counts_mtx)
    /\ row_i < Len(row_names)
    /\ LET v == outer_view(counts_mtx, row_i)
           row_val_iter == RowValIter_new(v)
           s == RowValIter_serialize(row_val_iter)
       IN /\ row' = v
          /\ it' = s.self
          /\ ser' = s.seq
          /\ last_op' = "serialize"
          /\ ret' = None /\ got' = <<>> /\ calls' = 0
          /\ \/ /\ output' = Append(output, [kind |-> "row", name |-> row_names[row_i + 1],
                                              values |-> s.seq])
                /\ row_i' = row_i + 1
                /\ UNCHANGED <<pc, result, err>>
             \/ UNCHANGED <<output, row_i>> /\ Fail("io", <<>>)
    /\ UNCHANGED <<adata, args, counts_mtx, header, first_col, row_names>>

\* the zipped iterator is exhausted: Ok(())
Finish ==
    /\ pc = "rows"
    /\ ~(row_i < outer_dims(counts_mtx) /\ row_i < Len(row_names))
    /\ pc' = "returned"
    /\ result' = "Ok"
    /\ UNCHANGED <<adata, args, counts_mtx, header, first_col, row_names, row_i, output, err>>
    /\ UNCHANGED iter_vars

Next == MakeCsv \/ Construct \/ Orient \/ OpenWriter \/ WriteHeader \/ WriteRow \/ Finish

Spec == Init /\ [][Next]_vars

(***************************************************************************)
(* RowValIter on its own: a view is chosen, an iterator is made of it, and *)
(* next() and serialize() are called in any order.                         *)
(***************************************************************************)
ConvIdle ==
    /\ pc = "idle"
    /\ adata = <<>>
    /\ args = <<>>
    /\ counts_mtx = NoMatrix
    /\ header = <<>>
    /\ first_col = ""
    /\ row_names = <<>>
    /\ row_i = 0
    /\ output = <<>>
    /\ result = "running"
    /\ err = NoError

IterStart(views) ==
    /\ row \in views
    /\ it = RowValIter_new(row)
    /\ ret = None
    /\ got = <<>>
    /\ calls = 0
    /\ last_op = "new"
    /\ ser = <<>>

\* let it = RowValIter::new(&row)
New ==
    /\ pc = "idle"
    /\ last_op # "new"
    /\ it' = RowValIter_new(row)
    /\ ret' = None
    /\ got' = <<>>
    /\ calls' = 0
    /\ last_op' = "new"
    /\ ser' = <<>>
    /\ UNCHANGED <<row, conv_vars>>

\* it.next()
CallNext ==
    /\ pc = "idle"
    /\ calls < MaxCalls
    /\ LET r == RowValIter_next(it)
       IN /\ it' = r.self
          /\ ret' = r.ret
          /\ got' = got \o r.ret
    /\ calls' = calls + 1
    /\ last_op' = "next"
    /\ UNCHANGED <<row, ser, conv_vars>>

\* it.serialize(serializer)
CallSerialize ==
    /\ pc = "idle"
    /\ LET r == RowValIter_serialize(it)
       IN /\ it' = r.self
          /\ ser' = r.seq
    /\ last_op' = "serialize"
    /\ UNCHANGED <<row, ret, got, calls, conv_vars>>

InitIter == IterStart(ValidRowViews) /\ ConvIdle
InitRaw == IterStart(UncheckedRowViews) /\ ConvIdle

NextIter == New \/ CallNext \/ CallSerialize

SpecIter == InitIter /\ [][NextIter]_vars
SpecRaw == InitRaw /\ [][NextIter]_vars

(***************************************************************************)
(* Properties of the conversion.                                           *)
(***************************************************************************)
\* the dimensions the label vectors declare
ObsCount == Len(adata.obs_names)
VarCount == Len(adata.var_names)

\* the entry of X at row i, column j (both from 0), read off the arrays of
\* the AnnData object
SourceEntry(i, j) ==
    LET ks == { k \in (adata.indptr[i + 1] + 1)..adata.indptr[i + 2] : adata.indices[k] = j }
    IN IF ks = {} THEN Zero ELSE adata.data[CHOOSE k \in ks : TRUE]

\* the <<row, column, value>> triples stored in the AnnData object
SourceTriples ==
    UNION { { <<i, adata.indices[k], adata.data[k]>> :
                k \in (adata.indptr[i + 1] + 1)..adata.indptr[i + 2] }
            : i \in 0..(ObsCount - 1) }

\* the <<row, column, value>> triples stored in the matrix being written
MatrixTriples ==
    UNION { { <<i, counts_mtx.indices[k], counts_mtx.data[k]>> :
                k \in (counts_mtx.indptr[i + 1] + 1)..counts_mtx.indptr[i + 2] }
            : i \in 0..(counts_mtx.nrows - 1) }

\* the orientation has been selected (first_col is set by nothing else)
Oriented == first_col # ""

\* the 2x3 example: row_pointers [0,1,3], column_indices [1,0,2], values
\* [5,7,9], row labels r0 r1, column labels c0 c1 c2
IsExample ==
    /\ adata.indptr = <<0, 1, 3>>
    /\ adata.indices = <<1, 0, 2>>
    /\ adata.data = <<5, 7, 9>>
    /\ adata.obs_names = <<"r0", "r1">>
    /\ adata.var_names = <<"c0", "c1", "c2">>

\* the arrays disagree with the dimensions of the label vectors in one of
\* the five ways
Inconsistent ==
    \/ Len(adata.indptr) # ObsCount + 1
    \/ Len(adata.indices) # Len(adata.data)
    \/ \E k \in 1..Len(adata.indices) : adata.indices[k] >= VarCount
    \/ \E i \in 1..(Len(adata.indptr) - 1) : adata.indptr[i] > adata.indptr[i + 1]
    \/ (adata.indptr # <<>> /\ adata.indptr[Len(adata.indptr)] # Len(adata.data))

\* C4: when the arrays are structurally inconsistent with the dimensions of
\* the label vectors, the conversion never gets past the construction of the
\* matrix: it returns an error (the structural one when the dtype is
\* supported) and no record, header or row, is written.
C4_InconsistentFailsAtConstruction ==
    Inconsistent =>
        /\ output = <<>>
        /\ pc \in {"make_csv", "try_new", "returned"}
        /\ ~Oriented
        /\ (pc = "returned" => result = "Err")
        /\ (pc = "returned" /\ adata.dtype \in SupportedDtypes => err.kind = "structure")

\* an input whose indptr is too short for the declared rows has been refused
C4_Witness ==
    /\ Len(adata.indptr) # ObsCount + 1 /\ ObsCount = MaxRows
    /\ pc = "returned" /\ result = "Err" /\ err.kind = "structure" /\ output = <<>>

C6_ObsNamesWritesTranspose ==
    args.column_orient = "ObsNames" /\ Oriented =>
        /\ \A n \in 2..Len(output) :
              /\ output[n].name = adata.var_names[n - 1]
              /\ output[n].values = [i \in 1..ObsCount |-> SourceEntry(i - 1, n - 2)]
        /\ (result = "Ok" => Len(output) = 1 + VarCount)
        /\ MatrixTriples = { <<t[2], t[1], t[3]>> : t \in SourceTriples }
        /\ Len(counts_mtx.data) = Len(adata.data)
        /\ Cardinality(MatrixTriples) = Len(adata.data)

\* the example has been written transposed: c0 -> [0,7], c1 -> [5,0], c2 -> [0,9]
C6_Witness ==
    /\ IsExample /\ args.column_orient = "ObsNames" /\ result = "Ok"
    /\ Len(output) = 4
    /\ output[2] = [kind |-> "row", name |-> "c0", values |-> <<0, 7>>]
    /\ output[3] = [kind |-> "row", name |-> "c1", values |-> <<5, 0>>]
    /\ output[4] = [kind |-> "row", name |-> "c2", values |-> <<0, 9>>]

\* C7: the two orientations assign the label vectors the opposite way round:
\* VarNames gives header = var and row_names = obs, ObsNames gives
\* header = obs and row_names = var, each vector as it was read.
C7_OrientationsSwapLabels ==
    Oriented =>
        /\ (args.column_orient = "VarNames" =>
              header = adata.var_names /\ row_names = adata.obs_names)
        /\ (args.column_orient = "ObsNames" =>
              header = adata.obs_names /\ row_names = adata.var_names)

\* ObsNames has been selected over label vectors of different lengths
C7_Witness ==
    /\ Oriented /\ args.column_orient = "ObsNames"
    /\ header = adata.obs_names /\ row_names = adata.var_names
    /\ Len(header) = MaxRows /\ Len(row_names) = MaxCols /\ header # row_names

\* C8: once the orientation is selected, header has as many labels as the
\* matrix has columns, row_names as many as it has rows, and every row
\* record written carries exactly len(header) values.
C8_RecordsMatchHeader ==
    Oriented =>
        /\ Len(header) = counts_mtx.ncols
        /\ Len(row_names) = counts_mtx.nrows
        /\ \A n \in 2..Len(output) : Len(output[n].values) = Len(header)
        /\ (output # <<>> => Len(output[1].values) = Len(header))

\* a matrix that is not square has been written completely, transposed
C8_Witness ==
    /\ result = "Ok" /\ args.column_orient = "ObsNames"
    /\ ObsCount = MaxRows /\ VarCount = MaxCols /\ ObsCount # VarCount
    /\ Len(output) = 1 + VarCount /\ Len(output[2].values) = ObsCount
    /\ adata.indices # <<>>

\* the records written are the header and then the rows 0, 1, .. of the
\* matrix in its final orientation, each under its own name
OutputInOrder ==
    /\ (output # <<>> =>
          /\ output[1] = [kind |-> "header", name |-> first_col, values |-> header]
          /\ first_col = (IF args.column_orient = "VarNames" THEN "cell" ELSE "gene")
          /\ counts_mtx.storage = "CSR")
    /\ \A n \in 2..Len(output) :
          /\ output[n].kind = "row"
          /\ n - 1 <= counts_mtx.nrows
          /\ output[n].name = row_names[n - 1]
          /\ output[n].values = Dense(outer_view(counts_mtx, n - 2))
    /\ (pc = "rows" => Len(output) = 1 + row_i)
    /\ (result = "Ok" => Len(output) = 1 + counts_mtx.nrows)
    /\ (IsExample /\ args.column_orient = "VarNames" /\ result = "Ok" =>
          output = << [kind |-> "header", name |-> "cell", values |-> <<"c0", "c1", "c2">>],
                      [kind |-> "row", name |-> "r0", values |-> <<0, 5, 0>>],
                      [kind |-> "row", name |-> "r1", values |-> <<7, 0, 9>>] >>)

\* C9: the header record (the prefix "cell" or "gene", then the header
\* labels) is written once and before any row record; the matrix is in its
\* final orientation before the first record and is not changed afterwards;
\* the row records follow in ascending row index, record i under
\* row_names[i] with the dense row i; records are only ever appended, and
\* after an error nothing more is written.
C9_OrderedOutput ==
    /\ []OutputInOrder
    /\ [][ /\ (output' = output \/ \E rec \in {output'[Len(output')]} :
                                      output' = Append(output, rec))
           /\ (output # <<>> => counts_mtx' = counts_mtx)
           /\ (result = "Err" => output' = output /\ result' = "Err") ]_vars

\* the example has been written as stored: header, r0 -> [0,5,0], r1 -> [7,0,9]
C9_Witness ==
    /\ IsExample /\ args.column_orient = "VarNames" /\ result = "Ok"
    /\ output = << [kind |-> "header", name |-> "cell", values |-> <<"c0", "c1", "c2">>],
                   [kind |-> "row", name |-> "r0", values |-> <<0, 5, 0>>],
                   [kind |-> "row", name |-> "r1", values |-> <<7, 0, 9>>] >>

(***************************************************************************)
(* Properties of RowValIter.                                               *)
(***************************************************************************)
\* the rows of the 2x3 example: row_pointers [0,1,3], column_indices [1,0,2],
\* values [5,7,9]
ExampleRow0 == [dim |-> 3, indices |-> <<1>>, data |-> <<5>>]
ExampleRow1 == [dim |-> 3, indices |-> <<0, 2>>, data |-> <<7, 9>>]

\* C1: from a fresh RowValIter over a structurally valid row of declared
\* length L, each of the first L calls of next() yields an item and call
\* L+1 returns None, so exactly L items come out whatever the number of
\* stored entries; a row with no stored entry yields L zeros.
C1_ExactlyDimItems ==
    ValidRow(row) =>
        /\ Len(got) <= row.dim
        /\ (calls <= row.dim => Len(got) = calls)
        /\ (calls > row.dim => Len(got) = row.dim /\ ret = None)
        /\ (row.indices = <<>> => \A i \in 1..Len(got) : got[i] = Zero)

\* a row of length 3 with two stored entries has been read to its end
C1_Witness ==
    /\ ValidRow(row) /\ row.dim = MaxLen /\ Len(row.indices) = 2
    /\ calls = row.dim + 1 /\ ret = None /\ Len(got) = row.dim

\* C2: the i-th item produced over a structurally valid row is the stored
\* value whose column index is i when there is one and zero otherwise; the
\* rows of the 2x3 example come out as [0,5,0] and [7,0,9].
C2_ItemIsDenseEntry ==
    ValidRow(row) =>
        /\ \A i \in 1..Len(got) : got[i] = DenseAt(row, i - 1)
        /\ (row = ExampleRow0 /\ calls >= 3 => got = <<0, 5, 0>>)
        /\ (row = ExampleRow1 /\ calls >= 3 => got = <<7, 0, 9>>)

\* the second row of the example has been read to its end
C2_Witness ==
    /\ row = ExampleRow1 /\ ret = None /\ calls = 4 /\ got = <<7, 0, 9>>

\* C3: whatever the row view, also one whose pending column index is >= L,
\* the iterator yields no more than L items, by next() or through serialize.
C3_NeverPastDim ==
    /\ Len(got) <= row.dim
    /\ Len(ser) <= row.dim

\* C10: serialize leaves the iterator's fields as they were, two serialize
\* calls in a row hand out the same sequence, and once next() has returned
\* None over a valid row a further next() returns None and changes nothing.
C10_SerializeAndNoneAreIdle ==
    [][ /\ (last_op' = "serialize" => it' = it)
        /\ (last_op = "serialize" /\ last_op' = "serialize" => ser' = ser)
        /\ (calls' = 0 /\ last_op' = "serialize" => ser' = Dense(row))
        /\ (ValidRow(row) /\ calls > 0 /\ ret = None /\ calls' = calls + 1
              => ret' = None /\ it' = it) ]_vars

\* a fresh iterator over a row with stored entries has been serialized twice
\* and then read to its end, two calls past the first None
C10_Witness ==
    /\ last_op = "next" /\ ser = Dense(row) /\ row.dim = MaxLen /\ row.indices # <<>>
    /\ calls = row.dim + 2 /\ ret = None /\ got = Dense(row)

====
